---- MODULE Spec2Model ----
(***************************************************************************)
(* Model of libsql-wal/src/storage/backend/s3.rs: the S3 storage backend   *)
(* of the WAL (segment key codec, segment lookup, store / fetch_segment /  *)
(* meta).                                                                  *)
(*                                                                         *)
(* A u64 is a sequence of 20 decimal digits, most significant first, so    *)
(* that the whole u64 range is representable (u64::MAX has 20 digits).     *)
(* A string is a sequence of ASCII codes; strings are compared bytewise,   *)
(* as the object store orders its keys.                                    *)
(*                                                                         *)
(* FileStreamBody, the request body that streams a file to put_object, is  *)
(* a second state machine over the shared source `inner`; every instance   *)
(* the retryable body builds is an element of `bodies`.                    *)
(***************************************************************************)
EXTENDS Integers, Sequences, FiniteSets, TLC

VARIABLES
    kc,       \* key codec: the last Display / FromStr evaluation
    kcPrev,   \* key codec: the Display evaluation before the last one
    s3,       \* the object store: bucket -> (object key -> object body)
    stored,   \* history: the segments whose store call returned Ok(())
    last,     \* the last backend call, its inputs and what it returned
    nstores,  \* number of store calls made
    nreads,   \* number of fetch_segment / meta calls made
    inner,    \* FileStreamBody: the bytes of the shared source (Arc<F>)
    bodies,   \* FileStreamBody: the instances built so far, in order
    reads,    \* history: per instance, the reads it issued
    frames,   \* history: per instance, the items it handed to its consumer
    polled    \* history: per instance, what its last poll_frame returned

codecVars == <<kc, kcPrev>>
backendVars == <<s3, stored, last, nstores, nreads>>
streamVars == <<inner, bodies, reads, frames, polled>>
vars == <<kc, kcPrev, s3, stored, last, nstores, nreads,
          inner, bodies, reads, frames, polled>>

\* no request body has been built
NoStream ==
    /\ inner = <<>>
    /\ bodies = <<>>
    /\ reads = <<>>
    /\ frames = <<>>
    /\ polled = <<>>

----------------------------------------------------------------------------
(* u64 arithmetic on 20-digit sequences *)

U64Digits == 20

\* a sequence built by a function constructor, as an explicit tuple
Tuple(f, n) == SubSeq(f, 1, n)

Pad20(ds) == Tuple([i \in 1..(U64Digits - Len(ds)) |-> 0], U64Digits - Len(ds)) \o ds

U64_MAX == <<1,8,4,4,6,7,4,4,0,7,3,7,0,9,5,5,1,6,1,5>>

RECURSIVE SeqLtFrom(_, _, _)
\* a < b in lexicographic order, given that they agree before position i; a
\* proper prefix is smaller
SeqLtFrom(a, b, i) ==
    IF i > Len(a) THEN i <= Len(b)
    ELSE IF i > Len(b) THEN FALSE
    ELSE IF a[i] = b[i] THEN SeqLtFrom(a, b, i + 1)
    ELSE a[i] < b[i]

\* numeric order of two u64: both have U64Digits digits
U64Lt(a, b) == SeqLtFrom(a, b, 1)

U64Le(a, b) == a = b \/ U64Lt(a, b)

RECURSIVE SubDigits(_, _, _, _)
\* digits 1..i of a - b, given the borrow taken by the digits below i
SubDigits(a, b, i, borrow) ==
    IF i = 0 THEN <<>>
    ELSE LET d == a[i] - b[i] - borrow
         IN  SubDigits(a, b, i - 1, IF d < 0 THEN 1 ELSE 0) \o <<(d + 10) % 10>>

\* a - b for a >= b
U64Sub(a, b) == SubDigits(a, b, U64Digits, 0)

----------------------------------------------------------------------------
(* strings *)

Ch0 == 48
ChPlus == 43
ChDash == 45
ChDot == 46
ChSlash == 47
ChColon == 58

IsDigit(c) == c >= Ch0 /\ c <= Ch0 + 9

\* bytewise order of two strings
StrLt(a, b) == SeqLtFrom(a, b, 1)

DigitsToStr(ds) == Tuple([i \in 1..Len(ds) |-> ds[i] + Ch0], Len(ds))

RECURSIVE StripZeros(_)
\* the digits of a number without its leading zeros (one digit at least)
StripZeros(ds) ==
    IF Len(ds) > 1 /\ ds[1] = 0 THEN StripZeros(Tail(ds)) ELSE ds

\* the minimum field width of "{:019}"
FieldWidth == 19

\* format!("{:019}", v): the decimal digits of v, zero padded on the left to
\* FieldWidth characters; a longer number is printed in full
Format019(v) ==
    LET ds == StripZeros(v)
    IN  IF Len(ds) >= FieldWidth THEN DigitsToStr(ds)
        ELSE DigitsToStr(Tuple([i \in 1..(FieldWidth - Len(ds)) |-> 0],
                               FieldWidth - Len(ds)) \o ds)

ParseErr == [ok |-> FALSE]

\* str::parse::<u64>(): an optional '+', then one or more ASCII digits, the
\* value at most u64::MAX
ParseU64(s) ==
    LET body == IF Len(s) > 0 /\ s[1] = ChPlus THEN Tail(s) ELSE s
    IN  IF Len(body) = 0 THEN ParseErr
        ELSE IF \E i \in 1..Len(body) : ~IsDigit(body[i]) THEN ParseErr
        ELSE LET ds == StripZeros(Tuple([i \in 1..Len(body) |-> body[i] - Ch0], Len(body)))
             IN  IF Len(ds) > U64Digits THEN ParseErr
                 ELSE IF U64Lt(U64_MAX, Pad20(ds)) THEN ParseErr
                 ELSE [ok |-> TRUE, val |-> Pad20(ds)]

----------------------------------------------------------------------------
(* SegmentKey *)

SegmentKey(s, e) == [start_frame_no |-> s, end_frame_no |-> e]

\* SegmentKey::includes
Includes(k, frame_no) ==
    U64Le(k.start_frame_no, frame_no) /\ U64Lt(frame_no, k.end_frame_no)

\* impl Display for SegmentKey
Display(k) ==
    Format019(U64Sub(U64_MAX, k.start_frame_no))
        \o <<ChDash>>
        \o Format019(U64Sub(U64_MAX, k.end_frame_no))

\* the position at which from_str splits off the first field
SplitAt == 20

\* impl FromStr for SegmentKey; str::split_at panics past the end of the string
FromStr(s) ==
    IF Len(s) < SplitAt THEN [kind |-> "Panic"]
    ELSE LET rev_start_fno == ParseU64(SubSeq(s, 1, SplitAt))
             rest == SubSeq(s, SplitAt + 1, Len(s))
         IN  IF ~rev_start_fno.ok THEN [kind |-> "Err"]
             ELSE IF Len(rest) < 1 THEN [kind |-> "Panic"]
             ELSE LET rev_end_fno == ParseU64(SubSeq(rest, 2, Len(rest)))
                  IN  IF ~rev_end_fno.ok THEN [kind |-> "Err"]
                      ELSE [kind |-> "Ok",
                            key |-> SegmentKey(U64Sub(U64_MAX, rev_start_fno.val),
                                               U64Sub(U64_MAX, rev_end_fno.val))]

----------------------------------------------------------------------------
(* inputs of the key codec *)

F0 == Pad20(<<0>>)
F1 == Pad20(<<1>>)
F63 == Pad20(<<6,3>>)
F64 == Pad20(<<6,4>>)
F128 == Pad20(<<1,2,8>>)
F150 == Pad20(<<1,5,0>>)
F200 == Pad20(<<2,0,0>>)
\* u64::MAX - 10^19: the largest value whose complement has 20 digits
FP == Pad20(<<8,4,4,6,7,4,4,0,7,3,7,0,9,5,5,1,6,1,5>>)
\* u64::MAX - 10^19 + 1: the smallest value whose complement has 19 digits
FQ == Pad20(<<8,4,4,6,7,4,4,0,7,3,7,0,9,5,5,1,6,1,6>>)
FQ1 == Pad20(<<8,4,4,6,7,4,4,0,7,3,7,0,9,5,5,1,6,1,7>>)
FM1 == <<1,8,4,4,6,7,4,4,0,7,3,7,0,9,5,5,1,6,1,4>>

CodecFrames == {F0, F64, FP, FQ, FQ1, FM1, U64_MAX}

CodecKeys ==
    {SegmentKey(s, e) : <<s, e>> \in {p \in CodecFrames \X CodecFrames : U64Lt(p[1], p[2])}}

Str0_20 == Format019(U64_MAX)
Str64_20 == Format019(U64Sub(U64_MAX, F64))
Str19 == Format019(F1)

DecodeInputs ==
    { <<>>,                                         \* empty
      Str19,                                        \* 19 digits, nothing else
      Str0_20,                                      \* 20 digits, nothing else
      Str0_20 \o <<ChDash>>,                        \* no second field
      Str0_20 \o <<ChDash>> \o Str64_20,            \* 20 digits - 20 digits
      Str0_20 \o <<120>> \o Str64_20,               \* separator 'x'
      Str0_20 \o <<ChDash>> \o <<Ch0>> \o Str64_20, \* second field too long
      <<ChPlus>> \o Str19 \o <<ChDash>> \o Str19,   \* a sign in the first field
      Str19 \o <<ChDash>> \o Str19,                 \* 19 digits - 19 digits
      Str19 \o <<120>> \o Str0_20,                  \* a letter in the first 20
      Str0_20 \o <<ChDash>> \o Str19 \o <<120>>,    \* a letter in the second field
      DigitsToStr(<<9,9,9,9,9,9,9,9,9,9,9,9,9,9,9,9,9,9,9,9>>)
          \o <<ChDash>> \o Str19 }                  \* first field above u64::MAX

----------------------------------------------------------------------------
(* inputs of the backend *)

\* the SegmentMeta ranges given to store
StoreKeys ==
    { SegmentKey(F0, F64), SegmentKey(F64, F128), SegmentKey(F64, F200),
      SegmentKey(F0, F200), SegmentKey(F128, F200), SegmentKey(FQ, FM1) }

\* the frames asked of fetch_segment
FetchFrames == {F1, F63, F64, F150, FQ1}

----------------------------------------------------------------------------
(* object keys *)

StrNs == <<110, 115, 45>>                                      \* "ns-"
StrV2 == <<45, 118, 50>>                                       \* "-v2"
StrSegments == <<47, 115, 101, 103, 109, 101, 110, 116, 115, 47>>  \* "/segments/"
StrIndexes == <<47, 105, 110, 100, 101, 120, 101, 115, 47>>    \* "/indexes/"

\* impl Display for FolderKey
FolderKey(cluster_id, namespace) ==
    StrNs \o cluster_id \o <<ChColon>> \o namespace \o StrV2

\* segment_key.to_string(), tabulated for the keys given to store
DisplayTable == [k \in StoreKeys |-> Display(k)] @@ <<>>

to_string(segment_key) ==
    IF segment_key \in DOMAIN DisplayTable
    THEN DisplayTable[segment_key] ELSE Display(segment_key)

\* format!("{:019}", u64::MAX - frame_no), tabulated for the frames looked up
LookupTable ==
    [f \in FetchFrames \cup {U64_MAX} |-> Format019(U64Sub(U64_MAX, f))] @@ <<>>

LookupField(frame_no) ==
    IF frame_no \in DOMAIN LookupTable
    THEN LookupTable[frame_no] ELSE Format019(U64Sub(U64_MAX, frame_no))

\* s.parse::<SegmentKey>(), tabulated for the strings store writes
FromStrTable == [s \in {Display(k) : k \in StoreKeys} |-> FromStr(s)] @@ <<>>

Parse(s) == IF s \in DOMAIN FromStrTable THEN FromStrTable[s] ELSE FromStr(s)

s3_segment_data_key(folder_key, segment_key) ==
    folder_key \o StrSegments \o to_string(segment_key)

s3_segment_index_key(folder_key, segment_key) ==
    folder_key \o StrIndexes \o to_string(segment_key)

s3_segment_index_lookup_key(folder_key, frame_no) ==
    folder_key \o StrIndexes \o LookupField(frame_no)

\* the positions of character c in s
Positions(s, c) == {i \in 1..Len(s) : s[i] = c}

MaxOf(S) == CHOOSE x \in S : \A y \in S : y <= x

\* Path::file_stem: the last component of the path, without its extension
FileStem(s) ==
    LET slashes == Positions(s, ChSlash)
        name == IF slashes = {} THEN s ELSE SubSeq(s, MaxOf(slashes) + 1, Len(s))
        dots == Positions(name, ChDot) \ {1}
    IN  IF dots = {} \/ name = <<ChDot, ChDot>> THEN name
        ELSE SubSeq(name, 1, MaxOf(dots) - 1)

----------------------------------------------------------------------------
(* the backend and the object store *)

Buckets == {"testbucket", "otherbucket"}

\* S3Backend::default_config, as from_sdk_config_with_io builds it
default_config == [bucket |-> "testbucket", cluster_id |-> <<49>>]

\* the per-call configurations: the default one, and one that names another
\* bucket and another cluster
Configs == {default_config, [bucket |-> "otherbucket", cluster_id |-> <<50>>]}

Namespaces == {<<97>>, <<98>>}

\* segment_data and segment_index given to store; "bad" is no fst map
Payloads ==
    { [data |-> "d1", index |-> "i1"],
      [data |-> "d2", index |-> "i2"],
      [data |-> "d1", index |-> "bad"] }

\* which call to a collaborator fails during an operation, if any
StoreFaults == {"none", "put_data", "put_index"}
FetchFaults == {"none", "list", "get_data", "get_index", "collect_index", "io_open"}
MetaFaults == {"none", "list"}

MaxStores == 2
MaxReads == 1

NoCall == [op |-> "none"]

InitBackend ==
    /\ s3 = [b \in Buckets |-> <<>>]
    /\ stored = {}
    /\ last = NoCall
    /\ nstores = 0
    /\ nreads = 0

Ok == [kind |-> "Ok"]
Panic(at) == [kind |-> "Panic", at |-> at]
Err(error) == [kind |-> "Err", error |-> error]

\* put_object: creates the object or replaces its body
PutObject(store, bucket, key, body) ==
    [store EXCEPT ![bucket] = (key :> body) @@ store[bucket]]

\* list_objects_v2().start_after(k): the keys of the bucket strictly after k
\* in ascending order; the set of them here, its least element is .first()
ListAfter(bucket, start_after) ==
    {k \in DOMAIN s3[bucket] : StrLt(start_after, k)}

LeastKey(keys) == CHOOSE k \in keys : \A j \in keys : j = k \/ StrLt(k, j)

\* S3Backend::find_segment
find_segment(config, folder_key, frame_no, list_fails) ==
    LET lookup_key == s3_segment_index_lookup_key(folder_key, frame_no)
        contents == ListAfter(config.bucket, lookup_key)
    IN  IF list_fails THEN Panic("list_objects_v2")
        ELSE IF contents = {} THEN [kind |-> "Ok", found |-> FALSE]
        ELSE LET parsed == Parse(FileStem(LeastKey(contents)))
             IN  IF parsed.kind = "Ok"
                 THEN [kind |-> "Ok", found |-> TRUE, key |-> parsed.key]
                 ELSE Panic("parse")

\* S3Backend::s3_get: get_object(...).send().await.unwrap().body
s3_get(config, key, get_fails) ==
    IF get_fails \/ key \notin DOMAIN s3[config.bucket]
    THEN Panic("get_object")
    ELSE [kind |-> "Ok", body |-> s3[config.bucket][key]]

\* fst::Map::new accepts well-formed index bytes only
ValidFst(bytes) == bytes \in {"i1", "i2"}

\* S3Backend::fetch_segment_data: what it leaves in the destination file
fetch_segment_data(config, folder_key, segment_key, fault) ==
    LET stream == s3_get(config, s3_segment_data_key(folder_key, segment_key),
                         fault = "get_data")
    IN  IF stream.kind # "Ok" THEN stream
        ELSE IF fault = "io_open" THEN Err("Io")
        ELSE [kind |-> "Ok", file |-> stream.body]

\* S3Backend::fetch_segment_index
fetch_segment_index(config, folder_key, segment_key, fault) ==
    LET stream == s3_get(config, s3_segment_index_key(folder_key, segment_key),
                         fault = "get_index")
    IN  IF stream.kind # "Ok" THEN stream
        ELSE IF fault = "collect_index" THEN Panic("collect")
        ELSE IF ~ValidFst(stream.body) THEN Panic("fst::Map::new")
        ELSE [kind |-> "Ok", index |-> [fst |-> stream.body]]

\* tokio::try_join!: both succeed, or the first failure ends the call; when
\* both sides fail, either failure can be the first
try_join(data, index) ==
    IF data.kind = "Ok" /\ index.kind = "Ok"
    THEN {[kind |-> "Ok", index |-> index.index, dest |-> data.file]}
    ELSE {r \in {data, index} : r.kind # "Ok"}

\* S3Backend::fetch_segment: the results the call can end with
fetch_segment(config, namespace, frame_no, fault) ==
    LET folder_key == FolderKey(config.cluster_id, namespace)
        found == find_segment(config, folder_key, frame_no, fault = "list")
    IN  IF found.kind # "Ok" THEN {found}
        ELSE IF ~found.found THEN {[kind |-> "Err", error |-> "FrameNotFound",
                                    frame_no |-> frame_no]}
        ELSE IF Includes(found.key, frame_no)
        THEN try_join(fetch_segment_data(config, folder_key, found.key, fault),
                      fetch_segment_index(config, folder_key, found.key, fault))
        ELSE {Panic("todo")}

\* S3Backend::meta
meta(config, namespace, fault) ==
    LET folder_key == FolderKey(config.cluster_id, namespace)
        max_segment_key == find_segment(config, folder_key, U64_MAX, fault = "list")
    IN  IF max_segment_key.kind # "Ok" THEN max_segment_key
        ELSE [kind |-> "Ok",
              max_frame_no |-> IF max_segment_key.found
                               THEN max_segment_key.key.end_frame_no
                               ELSE F0]

\* the bucket store writes to
StoreBucket(config) == default_config.bucket

\* a store that uploads the index object before the data object
StoreIndexFirst(configs, faults) ==
    /\ nstores < MaxStores
    /\ \E config \in configs, namespace \in Namespaces, key \in StoreKeys,
          payload \in Payloads, fault \in faults \cap StoreFaults :
        LET folder_key == FolderKey(config.cluster_id, namespace)
            bucket == StoreBucket(config)
            with_index == PutObject(s3, bucket,
                                    s3_segment_index_key(folder_key, key), payload.index)
            with_data == PutObject(with_index, bucket,
                                   s3_segment_data_key(folder_key, key), payload.data)
        IN  /\ nstores' = nstores + 1
            /\ s3' = CASE fault = "put_index" -> s3
                       [] fault = "put_data" -> with_index
                       [] OTHER -> with_data
            /\ stored' =
                 IF fault = "none"
                 THEN LET same == {g \in stored : /\ g.config = config
                                                  /\ g.namespace = namespace
                                                  /\ g.key = key}
                      IN  (stored \ same)
                            \cup {[config |-> config, namespace |-> namespace,
                                   key |-> key, payload |-> payload,
                                   replaced |-> {g.payload : g \in same}]}
                 ELSE stored
            /\ last' = [op |-> "store", config |-> config, namespace |-> namespace,
                        key |-> key, payload |-> payload, fault |-> fault,
                        res |-> IF fault = "none" THEN Ok ELSE Panic("put_object")]
            /\ UNCHANGED <<nreads, codecVars, streamVars>>

\* S3Backend::store, called with a config of configs while the collaborators
\* fail as faults allows
Store(configs, faults) ==
    /\ nstores < MaxStores
    /\ \E config \in configs, namespace \in Namespaces, key \in StoreKeys,
          payload \in Payloads, fault \in faults \cap StoreFaults :
        LET folder_key == FolderKey(config.cluster_id, namespace)
            bucket == StoreBucket(config)
            with_data == PutObject(s3, bucket,
                                   s3_segment_data_key(folder_key, key), payload.data)
            with_index == PutObject(with_data, bucket,
                                    s3_segment_index_key(folder_key, key), payload.index)
        IN  /\ nstores' = nstores + 1
            /\ s3' = CASE fault = "put_data" -> s3
                       [] fault = "put_index" -> with_data
                       [] OTHER -> with_index
            /\ stored' =
                 IF fault = "none"
                 THEN LET same == {g \in stored : /\ g.config = config
                                                  /\ g.namespace = namespace
                                                  /\ g.key = key}
                      IN  (stored \ same)
                            \cup {[config |-> config, namespace |-> namespace,
                                   key |-> key, payload |-> payload,
                                   replaced |-> {g.payload : g \in same}]}
                 ELSE stored
            /\ last' = [op |-> "store", config |-> config, namespace |-> namespace,
                        key |-> key, payload |-> payload, fault |-> fault,
                        res |-> IF fault = "none" THEN Ok ELSE Panic("put_object")]
            /\ UNCHANGED <<nreads, codecVars, streamVars>>

\* S3Backend::fetch_segment
FetchSegment(configs, faults) ==
    /\ nreads < MaxReads
    /\ \E config \in configs, namespace \in Namespaces, frame_no \in FetchFrames,
          fault \in faults \cap FetchFaults :
        \E res \in fetch_segment(config, namespace, frame_no, fault) :
            /\ nreads' = nreads + 1
            /\ last' = [op |-> "fetch_segment", config |-> config,
                        namespace |-> namespace, frame_no |-> frame_no,
                        fault |-> fault, res |-> res]
            /\ UNCHANGED <<s3, stored, nstores, codecVars, streamVars>>

\* S3Backend::meta
Meta(configs, faults) ==
    /\ nreads < MaxReads
    /\ \E config \in configs, namespace \in Namespaces, fault \in faults \cap MetaFaults :
        /\ nreads' = nreads + 1
        /\ last' = [op |-> "meta", config |-> config, namespace |-> namespace,
                    fault |-> fault, res |-> meta(config, namespace, fault)]
        /\ UNCHANGED <<s3, stored, nstores, codecVars, streamVars>>

Init ==
    /\ InitBackend
    /\ kc = [op |-> "none"]
    /\ kcPrev = [op |-> "none"]
    /\ NoStream

\* every per-call config, the collaborators never failing
Next ==
    \/ Store(Configs, {"none"})
    \/ FetchSegment(Configs, {"none"})
    \/ Meta(Configs, {"none"})

Spec == Init /\ [][Next]_vars

AllFaults == StoreFaults \cup FetchFaults \cup MetaFaults

\* the default config, any call to a collaborator failing
NextFaults ==
    \/ Store({default_config}, AllFaults)
    \/ FetchSegment({default_config}, AllFaults)
    \/ Meta({default_config}, AllFaults)

SpecFaults == Init /\ [][NextFaults]_vars

\* store calls alone, with the default config, any upload failing
NextStore == Store({default_config}, StoreFaults)

SpecStore == Init /\ [][NextStore]_vars

----------------------------------------------------------------------------
(* claims about the backend *)

\* the segments that store calls with this config stored in the namespace
StoredIn(config, namespace) ==
    {g \in stored : g.config = config /\ g.namespace = namespace}

\* no store call named this cluster and namespace
NothingStored(config, namespace) ==
    \A g \in stored :
        ~(g.config.cluster_id = config.cluster_id /\ g.namespace = namespace)

NonOverlapping(S) ==
    \A g \in S, h \in S :
        g = h \/ U64Le(g.key.end_frame_no, h.key.start_frame_no)
              \/ U64Le(h.key.end_frame_no, g.key.start_frame_no)

Contiguous(S) ==
    \A g \in S :
        \/ \A h \in S : U64Le(g.key.start_frame_no, h.key.start_frame_no)
        \/ \E h \in S : h.key.end_frame_no = g.key.start_frame_no

\* what find_segment returns to the last fetch_segment call (the bucket is
\* unchanged by the call)
Located ==
    find_segment(last.config, FolderKey(last.config.cluster_id, last.namespace),
                 last.frame_no, FALSE)

\* C1: when the segments stored in a namespace are contiguous and do not
\* overlap, fetch_segment of a frame inside one of them succeeds and returns
\* the index stored with that segment.
C1_FetchReturnsStoredIndex ==
    (/\ last.op = "fetch_segment"
     /\ last.fault = "none"
     /\ NonOverlapping(StoredIn(last.config, last.namespace))
     /\ Contiguous(StoredIn(last.config, last.namespace)))
        => \A g \in StoredIn(last.config, last.namespace) :
             (Includes(g.key, last.frame_no) /\ ValidFst(g.payload.index))
                => /\ last.res.kind = "Ok"
                   /\ last.res.index = [fst |-> g.payload.index]

\* C2: after successful store calls into a namespace, meta returns as
\* max_frame_no the end_frame_no of the stored segment with the highest
\* start_frame_no.
C2_MetaIsEndOfLastSegment ==
    (/\ last.op = "meta"
     /\ last.fault = "none"
     /\ StoredIn(last.config, last.namespace) # {})
        => /\ last.res.kind = "Ok"
           /\ \E g \in StoredIn(last.config, last.namespace) :
                /\ \A h \in StoredIn(last.config, last.namespace) :
                     U64Le(h.key.start_frame_no, g.key.start_frame_no)
                /\ last.res.max_frame_no = g.key.end_frame_no

\* C3: meta returns max_frame_no = 0 for a namespace in which nothing was
\* stored, whatever other namespaces and clusters hold in the bucket.
C3_MetaOfEmptyNamespaceIsZero ==
    (/\ last.op = "meta"
     /\ last.fault = "none"
     /\ NothingStored(last.config, last.namespace))
        => last.res = [kind |-> "Ok", max_frame_no |-> F0]

\* C4: fetch_segment fails with FrameNotFound(frame_no) for a namespace in
\* which nothing was stored, whatever other namespaces hold in the bucket.
C4_FetchOfEmptyNamespaceIsFrameNotFound ==
    (/\ last.op = "fetch_segment"
     /\ last.fault = "none"
     /\ NothingStored(last.config, last.namespace))
        => last.res = [kind |-> "Err", error |-> "FrameNotFound",
                       frame_no |-> last.frame_no]

\* C5: when fetch_segment locates a segment whose range does not include the
\* requested frame, the call returns the typed error SegmentGap: it does not
\* abort and does not return that segment's index.
C5_GapIsTypedError ==
    (/\ last.op = "fetch_segment"
     /\ last.fault = "none"
     /\ Located.kind = "Ok"
     /\ Located.found
     /\ ~Includes(Located.key, last.frame_no))
        => /\ last.res.kind = "Err"
           /\ last.res.error = "SegmentGap"

\* C6: after the same (namespace, start, end) was stored twice with different
\* payloads, the data and index objects of the key hold the second payload,
\* and a following fetch_segment of a frame in the range returns the second
\* index and the second data.
C6_OverwriteKeepsSecondPayload ==
    /\ (/\ last.op = "store"
        /\ last.res.kind = "Ok"
        /\ \E g \in stored :
             /\ g.config = last.config /\ g.namespace = last.namespace
             /\ g.key = last.key
             /\ g.replaced \ {last.payload} # {})
         => LET folder_key == FolderKey(last.config.cluster_id, last.namespace)
                bucket == s3[StoreBucket(last.config)]
                data_key == s3_segment_data_key(folder_key, last.key)
                index_key == s3_segment_index_key(folder_key, last.key)
            IN  /\ data_key \in DOMAIN bucket
                /\ index_key \in DOMAIN bucket
                /\ bucket[data_key] = last.payload.data
                /\ bucket[index_key] = last.payload.index
    /\ (/\ last.op = "fetch_segment"
        /\ last.fault = "none")
         => \A g \in StoredIn(last.config, last.namespace) :
              (/\ StoredIn(last.config, last.namespace) = {g}
               /\ g.replaced \ {g.payload} # {}
               /\ ValidFst(g.payload.index)
               /\ Includes(g.key, last.frame_no))
                 => last.res = [kind |-> "Ok", index |-> [fst |-> g.payload.index],
                                dest |-> g.payload.data]

----------------------------------------------------------------------------
(* C1, C2 and C6 on the calls that the two defects above do not reach: the *)
(* default config, and keys whose complemented start has 20 digits         *)

RegularCall ==
    /\ last.op \in {"store", "fetch_segment", "meta"}
    /\ last.config = default_config
    /\ \A g \in stored : U64Le(g.key.start_frame_no, FP)

\* C1 holds of the regular calls
RegularFetchReturnsStoredIndex == RegularCall => C1_FetchReturnsStoredIndex

\* C2 holds of the regular calls
RegularMetaIsEndOfLastSegment == RegularCall => C2_MetaIsEndOfLastSegment

\* C6 holds of the regular calls
RegularOverwriteKeepsSecondPayload == RegularCall => C6_OverwriteKeepsSecondPayload

\* a regular fetch_segment that returned the second payload of a key stored twice
RegularOverwriteFetched ==
    /\ RegularCall
    /\ last.op = "fetch_segment"
    /\ last.res.kind = "Ok"
    /\ \E g \in StoredIn(last.config, last.namespace) :
         /\ StoredIn(last.config, last.namespace) = {g}
         /\ g.replaced \ {g.payload} # {}
         /\ last.res.index = [fst |-> g.payload.index]

----------------------------------------------------------------------------
(* claims about failing collaborators, checked under SpecFaults *)

IndexObjectOfLocated ==
    s3_get(last.config,
           s3_segment_index_key(FolderKey(last.config.cluster_id, last.namespace),
                                Located.key),
           FALSE)

\* the first key listed for the last fetch_segment or meta call, if any
Listed ==
    ListAfter(last.config.bucket,
              s3_segment_index_lookup_key(
                  FolderKey(last.config.cluster_id, last.namespace),
                  IF last.op = "meta" THEN U64_MAX ELSE last.frame_no))

\* C7: a failed put, list or get, a failed collection of the body, a
\* malformed listed key and a malformed index blob each make store /
\* fetch_segment / meta return a typed error; none aborts the operation.
C7_FailuresAreTypedErrors ==
    /\ (last.op = "store" /\ last.fault \in {"put_data", "put_index"})
         => last.res.kind = "Err"
    /\ (last.op \in {"fetch_segment", "meta"} /\ last.fault = "list")
         => last.res.kind = "Err"
    /\ (/\ last.op \in {"fetch_segment", "meta"}
        /\ last.fault = "none"
        /\ Listed # {}
        /\ FromStr(FileStem(LeastKey(Listed))).kind # "Ok")
         => last.res.kind = "Err"
    /\ (/\ last.op = "fetch_segment"
        /\ last.fault \in {"get_data", "get_index", "collect_index"}
        /\ Located.kind = "Ok"
        /\ Located.found
        /\ Includes(Located.key, last.frame_no))
         => last.res.kind = "Err"
    /\ (/\ last.op = "fetch_segment"
        /\ last.fault = "none"
        /\ Located.kind = "Ok"
        /\ Located.found
        /\ Includes(Located.key, last.frame_no)
        /\ IndexObjectOfLocated.kind = "Ok"
        /\ ~ValidFst(IndexObjectOfLocated.body))
         => last.res.kind = "Err"

----------------------------------------------------------------------------
(* the key codec as a state machine: apply Display and FromStr to inputs *)

NoCodec == [op |-> "none"]

InitCodec ==
    /\ kc = NoCodec
    /\ kcPrev = NoCodec
    /\ InitBackend
    /\ NoStream

\* key.to_string()
DisplayKey ==
    \E k \in CodecKeys :
        /\ kc' = [op |-> "display", key |-> k, str |-> Display(k)]
        /\ kcPrev' = IF kc.op = "display" THEN kc ELSE kcPrev
        /\ UNCHANGED <<backendVars, streamVars>>

\* key.to_string().parse::<SegmentKey>()
ParseDisplayed ==
    /\ kc.op = "display"
    /\ kc' = [op |-> "roundtrip", key |-> kc.key, str |-> kc.str, res |-> FromStr(kc.str)]
    /\ UNCHANGED <<kcPrev, backendVars, streamVars>>

\* s.parse::<SegmentKey>() of an arbitrary string
ParseInput ==
    \E s \in DecodeInputs :
        /\ kc' = [op |-> "from_str", str |-> s, res |-> FromStr(s)]
        /\ UNCHANGED <<kcPrev, backendVars, streamVars>>

NextCodec ==
    \/ DisplayKey
    \/ ParseDisplayed
    \/ ParseInput

SpecCodec == InitCodec /\ [][NextCodec]_vars

----------------------------------------------------------------------------
(* claims about the key codec, checked under SpecCodec *)

\* C8: for every key (s, e) with s < e, parsing the string that Display
\* produces succeeds and yields the same key: decode(encode(k)) = k.
C8_RoundTrip ==
    kc.op = "roundtrip" => kc.res = [kind |-> "Ok", key |-> kc.key]

\* C9: of two keys, the one with the smaller start_frame_no has the encoded
\* string that sorts strictly greater.
C9_OrderReversal ==
    (/\ kc.op = "display"
     /\ kcPrev.op = "display"
     /\ U64Lt(kcPrev.key.start_frame_no, kc.key.start_frame_no))
        => StrLt(kc.str, kcPrev.str)

\* a digit field of a fixed width (19 or 20), a '-', a digit field of a
\* fixed width (19 or 20)
WellFormedKeyStr(s) ==
    \E w1 \in {19, 20}, w2 \in {19, 20} :
        /\ Len(s) = w1 + 1 + w2
        /\ s[w1 + 1] = ChDash
        /\ \A i \in (1..w1) \cup ((w1 + 2)..Len(s)) : IsDigit(s[i])

\* C10: decoding a string that is not digit field, separator, digit field
\* returns the error value; it is neither accepted nor aborted on.
C10_RejectsMalformed ==
    (kc.op = "from_str" /\ ~WellFormedKeyStr(kc.str)) => kc.res.kind = "Err"

----------------------------------------------------------------------------
(* FileStreamBody: the file streamed as the body of put_object *)

\* chunk_size: 4096
ChunkSize == 4096

MaxChunks == 2
MaxBodies == 2

\* the lengths of the sources streamed: empty, one byte, around one chunk,
\* a whole number of chunks and one byte more
SourceLens ==
    {0, 1, ChunkSize - 1, ChunkSize, ChunkSize + 1,
     MaxChunks * ChunkSize, MaxChunks * ChunkSize + 1}

\* the content of a source of length len; no two chunks of it are equal
SourceOf(len) == Tuple([i \in 1..len |-> (i * 7) % 251], len)

Sources == {SourceOf(len) : len \in SourceLens}

\* enum StreamState
StreamState == {"Init", "WaitingChunk", "Done"}

\* FileStreamBody::new_inner; the source is the shared `inner`, and the
\* future is std::future::pending() until a read is set
new_inner ==
    [current_offset |-> 0,
     chunk_size |-> ChunkSize,
     state |-> "Init",
     fut |-> [kind |-> "pending"]]

\* FileExt::read_at_async(buf, offset) on a source that does not fail: fills
\* buf, of the given capacity, with the bytes of the source from offset on
read_at_async(capacity, offset) ==
    LET len == Len(inner)
        to == IF offset + capacity < len THEN offset + capacity ELSE len
    IN  IF offset >= len THEN <<>> ELSE SubSeq(inner, offset + 1, to)

\* self.fut.poll(cx): the read is not finished, or it is and gives the
\* buffer (ret.map(|_| buf.freeze())) or the error of the source
PollFut(fut) ==
    IF fut.kind = "pending"
    THEN {[poll |-> "Pending"]}
    ELSE {[poll |-> "Pending"],
          [poll |-> "Ready", res |-> "Ok",
           buf |-> read_at_async(fut.capacity, fut.offset)],
          [poll |-> "Ready", res |-> "Err"]}

\* an Init arm that reads from the start of the source every time
InitArmFromStart(i) ==
    [bodies[i] EXCEPT
        !.fut = [kind |-> "read", offset |-> 0,
                 capacity |-> bodies[i].chunk_size, read |-> Len(reads[i]) + 1],
        !.state = "WaitingChunk"]

\* poll_frame, the StreamState::Init arm: instance i with the read at
\* current_offset set in self.fut, waiting for it
InitArm(i) ==
    [bodies[i] EXCEPT
        !.fut = [kind |-> "read", offset |-> bodies[i].current_offset,
                 capacity |-> bodies[i].chunk_size, read |-> Len(reads[i]) + 1],
        !.state = "WaitingChunk"]

\* a pending poll that drops the read, so that the next poll sets a new one
PendingArmAbandons(i, self) ==
    /\ bodies' = [bodies EXCEPT ![i] = [self EXCEPT !.state = "Init"]]
    /\ polled' = [polled EXCEPT ![i] = "Pending"]
    /\ UNCHANGED frames

\* poll_frame, Poll::Pending => return Poll::Pending
PendingArm(i, self) ==
    /\ bodies' = [bodies EXCEPT ![i] = self]
    /\ polled' = [polled EXCEPT ![i] = "Pending"]
    /\ UNCHANGED frames

\* an error arm that hands the error on and starts over with a new read
ReadyErrArmRetries(i, self) ==
    /\ bodies' = [bodies EXCEPT ![i] = [self EXCEPT !.state = "Init"]]
    /\ polled' = [polled EXCEPT ![i] = "Err"]
    /\ frames' = [frames EXCEPT ![i] = Append(@, [kind |-> "Err"])]

\* poll_frame, Poll::Ready(Err(e)) => return Poll::Ready(Some(Err(e)))
ReadyErrArm(i, self) ==
    /\ bodies' = [bodies EXCEPT ![i] = [self EXCEPT !.state = "Done"]]
    /\ polled' = [polled EXCEPT ![i] = "Err"]
    /\ frames' = [frames EXCEPT ![i] = Append(@, [kind |-> "Err"])]

\* the data arm ending the stream after the frame
ReadyOkArmEnds(i, self, buf) ==
    IF buf = <<>>
    THEN /\ bodies' = [bodies EXCEPT ![i] = [self EXCEPT !.state = "Done"]]
         /\ polled' = [polled EXCEPT ![i] = "None"]
         /\ UNCHANGED frames
    ELSE /\ bodies' = [bodies EXCEPT ![i] =
               [self EXCEPT !.state = "Done",
                            !.current_offset = @ + Len(buf)]]
         /\ polled' = [polled EXCEPT ![i] = "Data"]
         /\ frames' = [frames EXCEPT ![i] = Append(@, [kind |-> "Data", data |-> buf])]

\* poll_frame, Poll::Ready(Ok(buf)): an empty buffer ends the stream,
\* return Poll::Ready(None); any other is the next frame,
\* return Poll::Ready(Some(Ok(Frame::data(buf))))
ReadyOkArm(i, self, buf) ==
    IF buf = <<>>
    THEN /\ bodies' = [bodies EXCEPT ![i] = [self EXCEPT !.state = "Done"]]
         /\ polled' = [polled EXCEPT ![i] = "None"]
         /\ UNCHANGED frames
    ELSE /\ bodies' = [bodies EXCEPT ![i] =
               [self EXCEPT !.state = "Init",
                            !.current_offset = @ + Len(buf)]]
         /\ polled' = [polled EXCEPT ![i] = "Data"]
         /\ frames' = [frames EXCEPT ![i] = Append(@, [kind |-> "Data", data |-> buf])]

\* poll_frame, StreamState::Done => return Poll::Ready(None)
DoneArm(i) ==
    /\ polled' = [polled EXCEPT ![i] = "None"]
    /\ UNCHANGED <<bodies, reads, frames>>

\* <FileStreamBody as Body>::poll_frame on instance i: the loop goes from
\* the Init arm on to the WaitingChunk arm, which polls the read
poll_frame(i) ==
    LET init == bodies[i].state = "Init"
        self == IF init THEN InitArm(i) ELSE bodies[i]
    IN  IF bodies[i].state = "Done"
        THEN DoneArm(i)
        ELSE /\ reads' = [reads EXCEPT ![i] =
                   IF init THEN Append(@, [offset |-> self.fut.offset,
                                           capacity |-> self.fut.capacity])
                   ELSE @]
             /\ \E p \in PollFut(self.fut) :
                   CASE p.poll = "Pending" -> PendingArm(i, self)
                     [] p.poll = "Ready" /\ p.res = "Err" -> ReadyErrArm(i, self)
                     [] OTHER -> ReadyOkArm(i, self, p.buf)

\* the consumer of instance i polls it
PollFrame ==
    \E i \in 1..Len(bodies) :
        /\ poll_frame(i)
        /\ UNCHANGED <<inner, codecVars, backendVars>>

\* a retryable body that hands out the instance of the attempt before, as
\* it stands, in place of a new one
RebuildResumes ==
    /\ Len(bodies) < MaxBodies
    /\ bodies' = Append(bodies, bodies[Len(bodies)])
    /\ reads' = Append(reads, <<>>)
    /\ frames' = Append(frames, <<>>)
    /\ polled' = Append(polled, "NotPolled")
    /\ UNCHANGED <<inner, codecVars, backendVars>>

\* the closure given to SdkBody::retryable in into_byte_stream: every
\* attempt of the upload builds a new instance over the same source
Rebuild ==
    /\ Len(bodies) < MaxBodies
    /\ bodies' = Append(bodies, new_inner)
    /\ reads' = Append(reads, <<>>)
    /\ frames' = Append(frames, <<>>)
    /\ polled' = Append(polled, "NotPolled")
    /\ UNCHANGED <<inner, codecVars, backendVars>>

\* FileStreamBody::new(file).into_byte_stream(): SdkBody::retryable builds
\* the body of the first attempt at once
InitStream ==
    /\ inner \in Sources
    /\ bodies = <<new_inner>>
    /\ reads = << <<>> >>
    /\ frames = << <<>> >>
    /\ polled = <<"NotPolled">>
    /\ InitBackend
    /\ kc = NoCodec
    /\ kcPrev = NoCodec

NextStream ==
    \/ PollFrame
    \/ Rebuild

SpecStream == InitStream /\ [][NextStream]_vars

----------------------------------------------------------------------------
(* claims on FileStreamBody *)

RECURSIVE Concat(_)
\* the bytes of the data frames of a sequence of items, in order
Concat(items) ==
    IF items = <<>> THEN <<>>
    ELSE Concat(SubSeq(items, 1, Len(items) - 1))
         \o (IF items[Len(items)].kind = "Data" THEN items[Len(items)].data ELSE <<>>)

\* no read of instance i has failed
NoError(i) == \A n \in 1..Len(frames[i]) : frames[i][n].kind = "Data"

\* instance i has reported the end of the stream and no error before it
EndedWithoutError(i) == bodies[i].state = "Done" /\ NoError(i)

\* C11: an instance over a source of length L that ended without an error
\* has yielded exactly ceil(L / 4096) data frames whose bytes, in order, are
\* the bytes of the source, and then the end of the stream; over an empty
\* source the first poll that is not pending ends the stream with no frame
C11_StreamingFidelity ==
    \A i \in 1..Len(bodies) :
        /\ EndedWithoutError(i) =>
              /\ Len(frames[i]) = (Len(inner) + ChunkSize - 1) \div ChunkSize
              /\ Concat(frames[i]) = inner
              /\ polled[i] = "None"
        /\ (inner = <<>> /\ NoError(i) /\ polled[i] \notin {"NotPolled", "Pending"}) =>
              /\ polled[i] = "None"
              /\ frames[i] = <<>>
              /\ bodies[i].state = "Done"

\* a source of two chunks and one byte has been streamed to its end
C11_Witness ==
    \E i \in 1..Len(bodies) :
        /\ EndedWithoutError(i)
        /\ Len(inner) = MaxChunks * ChunkSize + 1
        /\ Len(frames[i]) = MaxChunks + 1

\* what is known of instance i: its fields and its history
Instance(i) ==
    [body |-> bodies[i], reads |-> reads[i], frames |-> frames[i],
     polled |-> polled[i]]

\* C12: every instance the retryable body builds starts in Init at offset 0
\* over the same source; a step changes one instance at most, so that no
\* poll of an instance changes the state, the offset or the history of
\* another; and whatever the interleaving of the polls, every instance that
\* has ended without an error has emitted the bytes of the source once
C12_RetryIndependence ==
    [][ /\ inner' = inner
        /\ Len(bodies') >= Len(bodies)
        /\ \A i \in (Len(bodies) + 1)..Len(bodies') :
              /\ bodies'[i].current_offset = 0
              /\ bodies'[i].state = "Init"
              /\ frames'[i] = <<>>
        /\ \A i, j \in 1..Len(bodies) :
              (i # j /\ Instance(i)' # Instance(i)) => Instance(j)' = Instance(j)
        /\ Len(bodies') > Len(bodies) =>
              \A i \in 1..Len(bodies) : Instance(i)' = Instance(i)
        /\ \A i \in 1..Len(bodies') :
              EndedWithoutError(i)' => Concat(frames'[i]) = inner'
      ]_vars

\* the second attempt has streamed the whole of a source of two chunks and
\* one byte while the first attempt stays abandoned after its first chunk
C12_Witness ==
    /\ Len(bodies) = 2
    /\ Len(inner) = MaxChunks * ChunkSize + 1
    /\ EndedWithoutError(2)
    /\ Concat(frames[2]) = inner
    /\ bodies[1].state = "WaitingChunk"
    /\ bodies[1].current_offset = ChunkSize

\* C13: while the read of an instance is in flight (WaitingChunk), no step
\* issues another read for it; a poll that finds the read pending leaves the
\* instance as it is, with the same read in self.fut; the frame a later poll
\* yields is the result of that read; the read in flight is always the last
\* one issued, at current_offset; and no instance ever issues two reads at
\* the same offset
C13_CancelSafe ==
    [][ \A i \in 1..Len(bodies) :
          /\ bodies[i].state = "WaitingChunk" =>
                /\ reads'[i] = reads[i]
                /\ bodies'[i].state = "WaitingChunk" => bodies'[i] = bodies[i]
                /\ polled'[i] = "Pending" => bodies'[i] = bodies[i]
                /\ Len(frames'[i]) > Len(frames[i]) /\ polled'[i] = "Data" =>
                      frames'[i][Len(frames'[i])].data =
                          read_at_async(bodies[i].fut.capacity, bodies[i].fut.offset)
          /\ bodies'[i].state = "WaitingChunk" =>
                /\ bodies'[i].fut.kind = "read"
                /\ bodies'[i].fut.read = Len(reads'[i])
                /\ bodies'[i].fut.offset = bodies'[i].current_offset
                /\ reads'[i][Len(reads'[i])].offset = bodies'[i].current_offset
          /\ \A m, n \in 1..Len(reads'[i]) :
                m # n => reads'[i][m].offset # reads'[i][n].offset
      ]_vars

\* the second read of an instance has been found pending
C13_Witness ==
    \E i \in 1..Len(bodies) :
        /\ bodies[i].state = "WaitingChunk"
        /\ polled[i] = "Pending"
        /\ Len(reads[i]) = 2
        /\ Len(frames[i]) = 1

\* C14: Done is terminal. From Done no step changes the instance, issues a
\* read or hands out a frame or an error, and a poll of it returns the end
\* of the stream; an error is handed to the consumer in the step that moves
\* the instance to Done, as the last item and the only error; a poll that
\* returns the end of the stream from another state is an empty read, and
\* it moves the instance to Done with no frame
C14_DoneIsTerminal ==
    [][ \A i \in 1..Len(bodies) :
          /\ bodies[i].state = "Done" =>
                /\ bodies'[i] = bodies[i]
                /\ reads'[i] = reads[i]
                /\ frames'[i] = frames[i]
                /\ polled'[i] \in {polled[i], "None"}
          /\ (bodies[i].state # "Done" /\ polled'[i] = "Err") =>
                /\ bodies'[i].state = "Done"
                /\ frames'[i] = Append(frames[i], [kind |-> "Err"])
          /\ (bodies[i].state # "Done" /\ polled'[i] = "None") =>
                /\ bodies'[i].state = "Done"
                /\ frames'[i] = frames[i]
                /\ read_at_async(bodies'[i].fut.capacity, bodies'[i].fut.offset) = <<>>
          /\ \A n \in 1..Len(frames'[i]) :
                frames'[i][n].kind = "Err" =>
                    n = Len(frames'[i]) /\ bodies'[i].state = "Done"
          /\ (bodies[i].state # "Done" /\ bodies'[i].state = "Done") =>
                polled'[i] \in {"Err", "None"}
      ]_vars

\* an instance has handed out a frame, then an error, and has been polled
\* again since
C14_Witness ==
    \E i \in 1..Len(bodies) :
        /\ bodies[i].state = "Done"
        /\ Len(frames[i]) = 2
        /\ frames[i][2].kind = "Err"
        /\ polled[i] = "None"

----------------------------------------------------------------------------
(* claims on find_segment, checked on the last fetch_segment or meta call *)

\* the frame the last call looked up: meta looks up u64::MAX
LookedUp == IF last.op = "meta" THEN U64_MAX ELSE last.frame_no

\* what find_segment returned to the last fetch_segment or meta call
Found ==
    find_segment(last.config, FolderKey(last.config.cluster_id, last.namespace),
                 LookedUp, FALSE)

\* the keys of the segments stored in the namespace of the last call
StoredKeys == {g.key : g \in StoredIn(last.config, last.namespace)}

\* C15: when some segment stored in the namespace starts at or before
\* frame_no, find_segment returns the stored segment with the largest
\* start_frame_no <= frame_no and, among those with that start, the one with
\* the largest end_frame_no.
C15_FindsLargestStartAtOrBefore ==
    (/\ last.op \in {"fetch_segment", "meta"}
     /\ last.fault = "none"
     /\ \E k \in StoredKeys : U64Le(k.start_frame_no, LookedUp))
        => /\ Found.kind = "Ok"
           /\ Found.found
           /\ Found.key \in StoredKeys
           /\ U64Le(Found.key.start_frame_no, LookedUp)
           /\ \A k \in StoredKeys :
                U64Le(k.start_frame_no, LookedUp) =>
                    \/ U64Lt(k.start_frame_no, Found.key.start_frame_no)
                    \/ /\ k.start_frame_no = Found.key.start_frame_no
                       /\ U64Le(k.end_frame_no, Found.key.end_frame_no)

\* C16: when some segment stored in the namespace contains frame n, whether
\* the stored ranges overlap or not, find_segment(n) returns a stored segment
\* that contains n, and fetch_segment(n) succeeds.
C16_FindsContainingSegment ==
    (/\ last.op = "fetch_segment"
     /\ last.fault = "none"
     /\ \A g \in StoredIn(last.config, last.namespace) : ValidFst(g.payload.index)
     /\ \E k \in StoredKeys : Includes(k, last.frame_no))
        => /\ Found.kind = "Ok"
           /\ Found.found
           /\ Found.key \in StoredKeys
           /\ Includes(Found.key, last.frame_no)
           /\ last.res.kind = "Ok"

\* C17: when the namespace holds segments and frame n is below the smallest
\* stored start_frame_no, find_segment(n) returns the stored segment with
\* the smallest start_frame_no.
C17_BelowAllFindsSmallest ==
    (/\ last.op = "fetch_segment"
     /\ last.fault = "none"
     /\ StoredKeys # {}
     /\ \A k \in StoredKeys : U64Lt(last.frame_no, k.start_frame_no))
        => /\ Found.kind = "Ok"
           /\ Found.found
           /\ Found.key \in StoredKeys
           /\ \A k \in StoredKeys :
                U64Le(Found.key.start_frame_no, k.start_frame_no)

\* C15 holds of the regular calls
RegularFindsLargestStartAtOrBefore == RegularCall => C15_FindsLargestStartAtOrBefore

----------------------------------------------------------------------------
(* claims on interrupted store calls, checked under SpecStore and SpecFaults *)

\* the folders store can write to
Folders ==
    {FolderKey(config.cluster_id, namespace) :
        config \in Configs, namespace \in Namespaces}

\* the object keys store can write
DataKeys == {s3_segment_data_key(f, k) : f \in Folders, k \in StoreKeys}
IndexKeys == {s3_segment_index_key(f, k) : f \in Folders, k \in StoreKeys}

\* C18: in every reachable state of every bucket, also after a store that
\* was interrupted by a failed upload, the index object of a segment key is
\* present only if the data object of the same key is present: store puts
\* the data object before the index object and nothing is ever deleted.
C18_IndexImpliesData ==
    \A b \in Buckets :
        /\ DOMAIN s3[b] \subseteq DataKeys \cup IndexKeys
        /\ \A f \in Folders, k \in StoreKeys :
              s3_segment_index_key(f, k) \in DOMAIN s3[b]
                  => s3_segment_data_key(f, k) \in DOMAIN s3[b]

\* a store was interrupted between its two uploads: the data object of its
\* key is in the bucket, the index object is not
C18_Witness ==
    /\ last.op = "store"
    /\ last.fault = "put_index"
    /\ LET f == FolderKey(last.config.cluster_id, last.namespace)
           objects == DOMAIN s3[StoreBucket(last.config)]
       IN  /\ s3_segment_data_key(f, last.key) \in objects
           /\ s3_segment_index_key(f, last.key) \notin objects

\* the step is a store call that was interrupted between its two uploads and
\* leaves the data object of its key without an index object
InterruptedStore ==
    /\ last'.op = "store"
    /\ last'.fault = "put_index"
    /\ s3_segment_index_key(FolderKey(last'.config.cluster_id, last'.namespace),
                            last'.key)
           \notin DOMAIN s3'[StoreBucket(last'.config)]

\* the step is a store call that succeeds on a key left without an index
\* object by an interrupted store
RetriedStore ==
    /\ last'.op = "store"
    /\ last'.fault = "none"
    /\ LET f == FolderKey(last'.config.cluster_id, last'.namespace)
           objects == DOMAIN s3[StoreBucket(last'.config)]
       IN  /\ s3_segment_data_key(f, last'.key) \in objects
           /\ s3_segment_index_key(f, last'.key) \notin objects

\* C19: a segment whose store was interrupted between the two uploads (data
\* object present, index object absent) is treated as absent: meta and
\* fetch_segment of every frame on its namespace return after the
\* interrupted store what they returned before it; and a retried store of
\* the same key returns Ok and leaves both objects with the retried payload.
C19_DataOnlySegmentIsAbsent ==
    [][ /\ InterruptedStore =>
              \A config \in Configs, namespace \in Namespaces :
                  (config = last'.config /\ namespace = last'.namespace) =>
                      /\ meta(config, namespace, "none")'
                             = meta(config, namespace, "none")
                      /\ \A frame_no \in FetchFrames :
                             fetch_segment(config, namespace, frame_no, "none")'
                                 = fetch_segment(config, namespace, frame_no, "none")
        /\ RetriedStore =>
              LET f == FolderKey(last'.config.cluster_id, last'.namespace)
                  bucket == s3'[StoreBucket(last'.config)]
              IN  /\ last'.res = Ok
                  /\ bucket[s3_segment_data_key(f, last'.key)] = last'.payload.data
                  /\ bucket[s3_segment_index_key(f, last'.key)] = last'.payload.index
      ]_vars

----------------------------------------------------------------------------
(* the per-call config, checked under Spec *)

\* C20: store acts on the bucket named by the config it is called with, as
\* meta and fetch_segment do: a store called with config c changes no bucket
\* other than c.bucket, and after it has returned Ok the data and index
\* objects of the segment are the ones s3_get reads with config c, for the
\* default config and for any other.
C20_StoreUsesCallConfig ==
    [][ \A config \in Configs, namespace \in Namespaces, key \in StoreKeys :
          (/\ last'.op = "store" /\ nstores' = nstores + 1
           /\ last'.config = config /\ last'.namespace = namespace
           /\ last'.key = key) =>
              /\ \A b \in Buckets \ {config.bucket} : s3'[b] = s3[b]
              /\ last'.res = Ok =>
                    LET f == FolderKey(config.cluster_id, namespace)
                    IN  /\ s3_get(config, s3_segment_data_key(f, key), FALSE)'
                               = [kind |-> "Ok", body |-> last'.payload.data]
                        /\ s3_get(config, s3_segment_index_key(f, key), FALSE)'
                               = [kind |-> "Ok", body |-> last'.payload.index]
      ]_vars

----------------------------------------------------------------------------
(* the offset of a FileStreamBody instance, checked under SpecStream *)

\* C21: in every reachable state of an instance, current_offset is the
\* number of bytes it has emitted in data frames; current_offset never
\* decreases; a step issues one read at most for an instance, at the
\* current_offset the instance has then and for chunk_size bytes at most,
\* and no frame holds more bytes than were asked for; an instance that has
\* ended without an error has issued one read more than it emitted frames.
C21_OffsetIsBytesEmitted ==
    [][ \A i \in 1..Len(bodies') :
          /\ bodies'[i].current_offset = Len(Concat(frames'[i]))
          /\ \A n \in 1..Len(frames'[i]) :
                frames'[i][n].kind = "Data" =>
                    Len(frames'[i][n].data) <= bodies'[i].chunk_size
          /\ EndedWithoutError(i)' => Len(reads'[i]) = Len(frames'[i]) + 1
          /\ i <= Len(bodies) =>
                /\ bodies'[i].current_offset >= bodies[i].current_offset
                /\ Len(reads'[i]) \in {Len(reads[i]), Len(reads[i]) + 1}
                /\ Len(reads'[i]) = Len(reads[i]) + 1 =>
                      /\ SubSeq(reads'[i], 1, Len(reads[i])) = reads[i]
                      /\ reads'[i][Len(reads'[i])].offset = bodies[i].current_offset
                      /\ reads'[i][Len(reads'[i])].capacity <= bodies[i].chunk_size
                      /\ reads'[i][Len(reads'[i])].capacity <= ChunkSize
      ]_vars

\* an instance has streamed a source of two chunks and one byte to its end:
\* three frames, four reads, the last one at the length of the source
C21_Witness ==
    \E i \in 1..Len(bodies) :
        /\ EndedWithoutError(i)
        /\ bodies[i].current_offset = MaxChunks * ChunkSize + 1
        /\ Len(frames[i]) = MaxChunks + 1
        /\ Len(reads[i]) = MaxChunks + 2
        /\ reads[i][MaxChunks + 2].offset = Len(inner)

====
